---- MODULE Spec2Model ----
(***************************************************************************)
(* Model of the addons template composition of amazon-ecs-cli-v2           *)
(* (package addons: Addons.Template, filterYAMLfiles,                      *)
(* validateNoMissingFiles).                                                *)
(*                                                                         *)
(* A Go string is a sequence of one-character strings, so that             *)
(* filepath.Ext, strings.TrimSuffix, strings.TrimSpace, strings.Split and  *)
(* strings.Join are computed character by character as the library does.   *)
(***************************************************************************)
EXTENDS Integers, Sequences, FiniteSets, TLC

(***************************************************************************)
(* Bounds of the model.                                                    *)
(***************************************************************************)
\* the longest directory listing ReadAddonsDir returns
MaxFiles == 3

(***************************************************************************)
(* Program constants (package addons, const block).                        *)
(***************************************************************************)
addonsTemplatePath == <<"a", "d", "d", "o", "n", "s", "/", "c", "f", ".", "y", "m", "l">>

paramsFileWithoutExt == <<"p", "a", "r", "a", "m", "s">>

outputsFileWithoutExt == <<"o", "u", "t", "p", "u", "t", "s">>

resourcesFiles == <<"r", "e", "s", "o", "u", "r", "c", "e", "s">>

\* yamlExtensions of filterYAMLfiles
yamlExtensions == << <<".", "y", "a", "m", "l">>, <<".", "y", "m", "l">> >>

\* the text validateNoMissingFiles reports for a missing resource file
resourceRequirement == <<"a", "t", " ", "l", "e", "a", "s", "t", " ", "o", "n", "e", " ", "r", "e", "s", "o", "u", "r", "c", "e", " ", "Y", "A", "M", "L", " ", "f", "i", "l", "e", " ", "s", "u", "c", "h", " ", "a", "s", " ", "\"", "s", "3", "-", "b", "u", "c", "k", "e", "t", ".", "y", "a", "m", "l", "\"">>

(***************************************************************************)
(* The Go library functions the package calls.                             *)
(***************************************************************************)
\* unicode.IsSpace on the characters the model uses
IsSpace(c) == c \in {" ", "\n", "\t", "\r"}

\* strings.TrimLeft by IsSpace
RECURSIVE TrimLeftSpace(_)
TrimLeftSpace(s) ==
    IF s = <<>> THEN <<>>
    ELSE IF IsSpace(Head(s)) THEN TrimLeftSpace(Tail(s))
    ELSE s

\* strings.TrimRight by IsSpace
RECURSIVE TrimRightSpace(_)
TrimRightSpace(s) ==
    IF s = <<>> THEN <<>>
    ELSE IF IsSpace(s[Len(s)]) THEN TrimRightSpace(SubSeq(s, 1, Len(s) - 1))
    ELSE s

\* strings.TrimSpace
TrimSpace(s) == TrimRightSpace(TrimLeftSpace(s))

\* strings.HasSuffix
HasSuffix(s, suffix) ==
    /\ Len(s) >= Len(suffix)
    /\ SubSeq(s, Len(s) - Len(suffix) + 1, Len(s)) = suffix

\* strings.TrimSuffix
TrimSuffix(s, suffix) ==
    IF HasSuffix(s, suffix) THEN SubSeq(s, 1, Len(s) - Len(suffix)) ELSE s

\* an extension taken from the first dot of the name instead of the last
RECURSIVE ExtFromFirstDot(_, _)
ExtFromFirstDot(path, i) ==
    IF i > Len(path) THEN <<>>
    ELSE IF path[i] = "." THEN SubSeq(path, i, Len(path))
    ELSE ExtFromFirstDot(path, i + 1)

Ext_FirstDot(path) == ExtFromFirstDot(path, 1)

\* filepath.Ext: scans from the end up to the first path separator and
\* returns the text from the first dot it meets, "" when there is none
RECURSIVE ExtFrom(_, _)
ExtFrom(path, i) ==
    IF i < 1 \/ path[i] = "/" THEN <<>>
    ELSE IF path[i] = "." THEN SubSeq(path, i, Len(path))
    ELSE ExtFrom(path, i - 1)

Ext(path) == ExtFrom(path, Len(path))

\* strings.Split(s, sep) for a one-character separator: the pieces between
\* the separators, one piece (possibly empty) more than there are separators
RECURSIVE SplitFrom(_, _, _)
SplitFrom(s, sep, cur) ==
    IF s = <<>> THEN <<cur>>
    ELSE IF Head(s) = sep THEN <<cur>> \o SplitFrom(Tail(s), sep, <<>>)
    ELSE SplitFrom(Tail(s), sep, Append(cur, Head(s)))

Split(s, sep) == SplitFrom(s, sep, <<>>)

\* strings.Join
RECURSIVE Join(_, _)
Join(elems, sep) ==
    IF elems = <<>> THEN <<>>
    ELSE IF Len(elems) = 1 THEN elems[1]
    ELSE elems[1] \o sep \o Join(Tail(elems), sep)

(***************************************************************************)
(* Helpers of package addons.                                              *)
(***************************************************************************)
\* contains(arr, el)
contains(arr, el) == \E i \in 1..Len(arr) : arr[i] = el

\* filterYAMLfiles(files): the loop over files, appending the YAML ones
RECURSIVE filterYAMLfiles(_)
filterYAMLfiles(files) ==
    IF files = <<>> THEN <<>>
    ELSE IF ~contains(yamlExtensions, Ext(Head(files)))
         THEN filterYAMLfiles(Tail(files))
         ELSE <<Head(files)>> \o filterYAMLfiles(Tail(files))

\* lookup in a Go map[string]string: the zero value "" for a missing key
MapGet(m, k) == IF k \in DOMAIN m THEN m[k] ELSE <<>>

\* assignment m[k] = v in a Go map
MapSet(m, k, v) == [x \in (DOMAIN m) \cup {k} |-> IF x = k THEN v ELSE m[x]]

\* the map make(map[string]string) gives Template at the start of a call
EmptyMap == [x \in {} |-> <<>>]

\* a switch that compares the name up to its first dot
NameWithoutExt_FirstDot(fileName) ==
    IF \E i \in 1..Len(fileName) : fileName[i] = "."
    THEN SubSeq(fileName, 1,
                (CHOOSE i \in 1..Len(fileName) :
                    fileName[i] = "." /\ \A j \in 1..(i - 1) : fileName[j] # ".") - 1)
    ELSE fileName

\* the value Template's switch switches on
NameWithoutExt(fileName) == TrimSuffix(fileName, Ext(fileName))

\* the key of addonFiles the switch writes for a file name
SlotOf(fileName) ==
    IF NameWithoutExt(fileName) = paramsFileWithoutExt THEN paramsFileWithoutExt
    ELSE IF NameWithoutExt(fileName) = outputsFileWithoutExt THEN outputsFileWithoutExt
    ELSE resourcesFiles

\* a switch that puts a resource file in front of the block
FoldFile_Prepend(m, fileName, trimmedContent) ==
    IF SlotOf(fileName) = resourcesFiles
    THEN MapSet(m, resourcesFiles, trimmedContent \o <<"\n">> \o MapGet(m, resourcesFiles))
    ELSE MapSet(m, SlotOf(fileName), trimmedContent)

\* a switch that keeps the first params and outputs file it saw
FoldFile_KeepFirst(m, fileName, trimmedContent) ==
    IF SlotOf(fileName) = resourcesFiles
    THEN MapSet(m, resourcesFiles, MapGet(m, resourcesFiles) \o trimmedContent \o <<"\n">>)
    ELSE IF SlotOf(fileName) \in DOMAIN m THEN m
    ELSE MapSet(m, SlotOf(fileName), trimmedContent)

\* the body of Template's switch: overwrite for params and outputs,
\* append plus newline for every other file
FoldFile(m, fileName, trimmedContent) ==
    IF SlotOf(fileName) = resourcesFiles
    THEN MapSet(m, resourcesFiles, MapGet(m, resourcesFiles) \o trimmedContent \o <<"\n">>)
    ELSE MapSet(m, SlotOf(fileName), trimmedContent)

\* the test validateNoMissingFiles applies to one slot
SlotMissing(f, k) == MapGet(f, k) = <<>>

\* a validation that forgets the outputs file
missingFilesOf_NoOutputs(f) ==
    (IF SlotMissing(f, paramsFileWithoutExt)
        THEN << paramsFileWithoutExt \o <<".", "y", "a", "m", "l">> >> ELSE <<>>)
    \o (IF SlotMissing(f, resourcesFiles) THEN <<resourceRequirement>> ELSE <<>>)

\* missingFiles of validateNoMissingFiles, in the order it appends them
missingFilesOf(f) ==
    (IF SlotMissing(f, paramsFileWithoutExt)
        THEN << paramsFileWithoutExt \o <<".", "y", "a", "m", "l">> >> ELSE <<>>)
    \o (IF SlotMissing(f, outputsFileWithoutExt)
        THEN << outputsFileWithoutExt \o <<".", "y", "a", "m", "l">> >> ELSE <<>>)
    \o (IF SlotMissing(f, resourcesFiles) THEN <<resourceRequirement>> ELSE <<>>)

\* the nil error
NoErr == [kind |-> "nil"]

\* validateNoMissingFiles(f): nil, or the error listing the missing files
validateNoMissingFiles(f) ==
    IF missingFilesOf(f) # <<>>
    THEN [kind |-> "errorf",
          format |-> "addons directory has missing file(s): %s",
          args |-> << Join(missingFilesOf(f), <<",", " ">>) >>]
    ELSE NoErr

\* an ErrDirNotExist that drops the failure it was made for
ErrDirNotExist_NoParent(svcName, parentErr) ==
    [kind |-> "ErrDirNotExist", SvcName |-> svcName, ParentErr |-> NoErr]

\* &ErrDirNotExist{SvcName, ParentErr}
ErrDirNotExist(svcName, parentErr) ==
    [kind |-> "ErrDirNotExist", SvcName |-> svcName, ParentErr |-> parentErr]

\* the error Template wraps a failed ReadAddonsFile in
ReadFileError(fileName, svcName, err) ==
    [kind |-> "errorf",
     format |-> "read addons file %s under service %s: %w",
     args |-> <<fileName, svcName>>,
     wrapped |-> err]

\* template data split without trimming the blocks first
TemplateData_NoTrim(svcName, f) ==
    [SvcName |-> svcName,
     Parameters |-> Split(MapGet(f, paramsFileWithoutExt), "\n"),
     Resources |-> Split(MapGet(f, resourcesFiles), "\n"),
     Outputs |-> Split(MapGet(f, outputsFileWithoutExt), "\n")]

\* the data Template hands to parser.Parse
TemplateData(svcName, f) ==
    [SvcName |-> svcName,
     Parameters |-> Split(TrimSpace(MapGet(f, paramsFileWithoutExt)), "\n"),
     Resources |-> Split(TrimSpace(MapGet(f, resourcesFiles)), "\n"),
     Outputs |-> Split(TrimSpace(MapGet(f, outputsFileWithoutExt)), "\n")]

(***************************************************************************)
(* The collaborators: the workspace reader and the template parser.        *)
(***************************************************************************)
\* file names a directory listing is drawn from
FileParamsYaml == <<"p", "a", "r", "a", "m", "s", ".", "y", "a", "m", "l">>

FileParamsYml == <<"p", "a", "r", "a", "m", "s", ".", "y", "m", "l">>

FileOutputsYaml == <<"o", "u", "t", "p", "u", "t", "s", ".", "y", "a", "m", "l">>

FileAYaml == <<"a", ".", "y", "a", "m", "l">>

FileBYml == <<"b", ".", "y", "m", "l">>

FileNotesTxt == <<"n", "o", "t", "e", "s", ".", "t", "x", "t">>

FileReadme == <<"R", "E", "A", "D", "M", "E">>

FileCapParamsYaml == <<"P", "a", "r", "a", "m", "s", ".", "y", "a", "m", "l">>

FileParamsV2Yaml == <<"p", "a", "r", "a", "m", "s", ".", "v", "2", ".", "y", "a", "m", "l">>

FileOutputsExtraYml == <<"o", "u", "t", "p", "u", "t", "s", "-", "e", "x", "t", "r", "a", ".", "y", "m", "l">>

FileAUpperYAML == <<"a", ".", "Y", "A", "M", "L">>

CoreNames == {FileParamsYaml, FileParamsYml, FileOutputsYaml, FileAYaml, FileBYml}

\* names that differ from the reserved ones by case, by a second dot or by
\* a suffix, and names whose extension is not a YAML one
OddNames ==
    {FileParamsYaml, FileOutputsYaml, FileAYaml, FileNotesTxt, FileReadme,
     FileCapParamsYaml, FileParamsV2Yaml, FileOutputsExtraYml, FileAUpperYAML}

\* file contents: whitespace only, one line, and two lines with surrounding
\* whitespace and an indented second line
ContentBlank == <<" ", "\n">>

ContentA == <<"A">>

ContentB == <<" ", "B", ":", "\n", " ", " ", "T", "\n">>

CoreContents == {ContentBlank, ContentA, ContentB}

\* the directory listings of at most MaxFiles distinct names
Listings(names) ==
    UNION {{l \in [1..n -> names] : \A i, j \in 1..n : l[i] = l[j] => i = j} :
           n \in 0..MaxFiles}

Range(l) == {l[i] : i \in 1..Len(l)}

\* what the collaborators answer during a run. Either the addons directory
\* cannot be listed; or it lists some files, each with a content, and one of
\* them cannot be read; or all can be read and Parse succeeds or fails.
IsEnvironment(e, names, contents) ==
    \/ e = [dirErr |-> TRUE, listing |-> <<>>, content |-> <<>>,
            unreadable |-> {}, parseErr |-> FALSE]
    \/ \E l \in Listings(names) :
         \E c \in [Range(l) -> contents] :
            \/ \E f \in Range(l) :
                 e = [dirErr |-> FALSE, listing |-> l, content |-> c,
                      unreadable |-> {f}, parseErr |-> FALSE]
            \/ \E pe \in BOOLEAN :
                 e = [dirErr |-> FALSE, listing |-> l, content |-> c,
                      unreadable |-> {}, parseErr |-> pe]

VARIABLES
    a,          \* the Addons object: svcName
    env,        \* what a.ws and a.parser answer: the addons directory, Parse
    pc,         \* where the Template call is: "idle", "loop", "returned"
    fileNames,  \* Template: the result of filterYAMLfiles, ranged over
    idx,        \* Template: position of the range loop in fileNames
    addonFiles, \* Template: the local map addonFiles
    calls,      \* the collaborator calls the current Template call made
    result,     \* what the current Template call returned: text and err
    prev,       \* what the Template call before it returned, if any
    cmd,        \* the command method that runs: Validate, askSvcPort, Execute
    o,          \* the command's options object (showEnvOpts, initSvcOpts)
    world,      \* what the command's collaborators answer
    cpc,        \* where the command method is
    local,      \* the command method's local variables
    trace,      \* the collaborator calls the command method made, in order
    ret         \* the error the command method returned

\* the state of the addons package
addonsVars == <<a, env, pc, fileNames, idx, addonFiles, calls, result, prev>>

\* the state of the cli package
cliVars == <<cmd, o, world, cpc, local, trace, ret>>

vars == <<a, env, pc, fileNames, idx, addonFiles, calls, result, prev,
          cmd, o, world, cpc, local, trace, ret>>

\* the command method has not returned yet
NotReturned == [kind |-> "not returned"]

\* no command of the cli package runs
CliIdle ==
    /\ cmd = "none"
    /\ o = <<>>
    /\ world = <<>>
    /\ cpc = "idle"
    /\ local = <<>>
    /\ trace = <<>>
    /\ ret = NotReturned

\* a.ws.ReadAddonsDir(svcName)
ReadAddonsDir(w, svcName) ==
    IF w.dirErr THEN [names |-> <<>>, err |-> [kind |-> "readDirFailed"]]
    ELSE [names |-> w.listing, err |-> NoErr]

\* a.ws.ReadAddonsFile(svcName, fileName)
ReadAddonsFile(w, svcName, fileName) ==
    IF fileName \in w.unreadable
    THEN [content |-> <<>>, err |-> [kind |-> "readFileFailed"]]
    ELSE [content |-> w.content[fileName], err |-> NoErr]

\* a.parser.Parse(path, data): the rendered document, opaque but for what
\* it was rendered from
Parse(e, path, data) ==
    IF e.parseErr THEN [content |-> <<>>, err |-> [kind |-> "parseFailed"]]
    ELSE [content |-> <<[template |-> path, data |-> data]>>, err |-> NoErr]

\* a loop that goes on after a failed read
ReadFailed_Never(r) == FALSE

\* Template's test of what ReadAddonsFile returned: err != nil
ReadFailed(r) == r.err # NoErr

\* a return that wraps the error of Parse
ParseResult_Wrapped(r) ==
    IF r.err # NoErr
    THEN [text |-> <<>>,
          err |-> [kind |-> "errorf", format |-> "parse addons template: %w",
                   args |-> <<>>, wrapped |-> r.err]]
    ELSE [text |-> r.content, err |-> NoErr]

\* what Template returns after Parse: "" and the error of Parse, or
\* content.String() and nil
ParseResult(r) ==
    IF r.err # NoErr
    THEN [text |-> <<>>, err |-> r.err]
    ELSE [text |-> r.content, err |-> NoErr]

NoResult == [text |-> <<>>, err |-> [kind |-> "none"]]

\* a map kept from one call to the next
makeAddonFiles_Stale == addonFiles

\* the local map a Template call starts from: make(map[string]string)
makeAddonFiles == EmptyMap

InitWith(names, contents, svcs) ==
    /\ a \in {[svcName |-> s] : s \in svcs}
    /\ IsEnvironment(env, names, contents)
    /\ pc = "idle"
    /\ fileNames = <<>>
    /\ idx = 0
    /\ addonFiles = EmptyMap
    /\ calls = <<>>
    /\ result = NoResult
    /\ prev = <<>>
    /\ CliIdle

Init == InitWith(CoreNames, CoreContents, {"api"})

InitNames == InitWith(OddNames, {ContentA}, {"api", "frontend"})

\* the names of a directory that is edited between the calls
ChangingNames == {FileParamsYaml, FileOutputsYaml, FileAYaml}

InitChanging == InitWith(ChangingNames, {ContentA}, {"api", "frontend"})

(***************************************************************************)
(* Addons.Template, one action per collaborator call it makes.             *)
(***************************************************************************)
\* Template is called: ReadAddonsDir, then filterYAMLfiles and the new map
TemplateStart ==
    /\ pc = "idle"
    /\ LET r == ReadAddonsDir(env, a.svcName) IN
       /\ calls' = <<[op |-> "ReadAddonsDir", svc |-> a.svcName]>>
       /\ IF r.err # NoErr
          THEN /\ result' = [text |-> <<>>, err |-> ErrDirNotExist(a.svcName, r.err)]
               /\ pc' = "returned"
               /\ UNCHANGED <<fileNames, idx, addonFiles>>
          ELSE /\ fileNames' = filterYAMLfiles(r.names)
               /\ idx' = 1
               /\ addonFiles' = makeAddonFiles
               /\ pc' = "loop"
               /\ result' = NoResult
    /\ UNCHANGED <<a, env, prev>>
    /\ UNCHANGED cliVars

\* one iteration of the range loop: ReadAddonsFile, then the switch
TemplateReadFile ==
    /\ pc = "loop"
    /\ idx <= Len(fileNames)
    /\ LET fileName == fileNames[idx]
           r == ReadAddonsFile(env, a.svcName, fileName) IN
       /\ calls' = Append(calls, [op |-> "ReadAddonsFile", svc |-> a.svcName,
                                  fileName |-> fileName])
       /\ IF ReadFailed(r)
          THEN /\ result' = [text |-> <<>>,
                             err |-> ReadFileError(fileName, a.svcName, r.err)]
               /\ pc' = "returned"
               /\ UNCHANGED <<idx, addonFiles>>
          ELSE /\ addonFiles' = FoldFile(addonFiles, fileName, TrimSpace(r.content))
               /\ idx' = idx + 1
               /\ UNCHANGED <<pc, result>>
    /\ UNCHANGED <<a, env, fileNames, prev>>
    /\ UNCHANGED cliVars

\* after the loop: validateNoMissingFiles, then Parse and the return
TemplateFinish ==
    /\ pc = "loop"
    /\ idx > Len(fileNames)
    /\ IF validateNoMissingFiles(addonFiles) # NoErr
       THEN /\ result' = [text |-> <<>>, err |-> validateNoMissingFiles(addonFiles)]
            /\ UNCHANGED calls
       ELSE LET data == TemplateData(a.svcName, addonFiles)
                r == Parse(env, addonsTemplatePath, data) IN
            /\ calls' = Append(calls, [op |-> "Parse", path |-> addonsTemplatePath,
                                       data |-> data])
            /\ result' = ParseResult(r)
    /\ pc' = "returned"
    /\ UNCHANGED <<a, env, fileNames, idx, addonFiles, prev>>
    /\ UNCHANGED cliVars

\* the caller takes the result; the object can be called again
TemplateReturn ==
    /\ pc = "returned"
    /\ prev = <<>>
    /\ prev' = <<result>>
    /\ pc' = "idle"
    /\ UNCHANGED <<a, env, fileNames, idx, addonFiles, calls, result>>
    /\ UNCHANGED cliVars

Next ==
    \/ TemplateStart
    \/ TemplateReadFile
    \/ TemplateFinish
    \/ TemplateReturn

\* the caller takes the result and the addons directory is edited, or
\* Parse starts or stops failing, before the object is called again
DirectoryChanges ==
    /\ pc = "returned"
    /\ IsEnvironment(env', ChangingNames, {ContentA})
    /\ env' # env
    /\ prev' = <<result>>
    /\ pc' = "idle"
    /\ UNCHANGED <<a, fileNames, idx, addonFiles, calls, result>>
    /\ UNCHANGED cliVars

NextChanging ==
    \/ Next
    \/ DirectoryChanges

Spec == Init /\ [][Next]_vars

\* one object called again and again while its directory changes
SpecChanging == InitChanging /\ [][NextChanging]_vars

SpecNames == InitNames /\ [][Next]_vars

(***************************************************************************)
(* Package cli.  A command object is built with its flags, then one of its *)
(* methods runs against its collaborators (store, workspace, deployer,     *)
(* progress spinner, Dockerfile parser, prompt).  What the collaborators   *)
(* answer is in world; every call made to them is appended to trace.       *)
(***************************************************************************)
\* the addons package is not in use while a command of package cli runs
AddonsIdle ==
    /\ a = [svcName |-> "api"]
    /\ env = [dirErr |-> FALSE, listing |-> <<>>, content |-> <<>>,
              unreadable |-> {}, parseErr |-> FALSE]
    /\ pc = "idle"
    /\ fileNames = <<>>
    /\ idx = 0
    /\ addonFiles = EmptyMap
    /\ calls = <<>>
    /\ result = NoResult
    /\ prev = <<>>

\* errors.New("some error"), as the collaborator called by op returns it
SomeError(op) == [kind |-> "some error", from |-> op]

\* what a collaborator call can answer: nil or its error
Answers(op) == {NoErr, SomeError(op)}

(***************************************************************************)
(* env show: showEnvOpts.Validate, as TestEnvShow_Validate drives it.      *)
(***************************************************************************)
\* the inputs of the test cases: inputApp and inputEnvironment
InputApps == {"my-app"}

InputEnvironments == {"my-env"}

\* the mock store's GetApplication(name): the Return of its EXPECT
MockGetApplication(w, name) == w.getApplication

\* the mock store's GetEnvironment(app, name): the Return of its EXPECT
MockGetEnvironment(w, app, name) == w.getEnvironment

\* a test case: the options object and what the mock store returns
InitValidate ==
    /\ cmd = "Validate"
    /\ \E app \in InputApps, e \in InputEnvironments :
         o = [appName |-> app, envName |-> e]
    /\ \E ga \in Answers("GetApplication"), ge \in Answers("GetEnvironment") :
         world = [getApplication |-> ga, getEnvironment |-> ge]
    /\ cpc = "start"
    /\ local = <<>>
    /\ trace = <<>>
    /\ ret = NotReturned

\* the application Validate looks up a wrong application's environment in
ValidateEnvApp_Other(opts) == "other-app"

\* the application whose environment Validate looks up
ValidateEnvApp(opts) == opts.appName

\* Validate, first lookup: the application
ValidateGetApplication ==
    /\ cmd = "Validate"
    /\ cpc = "start"
    /\ LET err == MockGetApplication(world, o.appName) IN
       /\ trace' = Append(trace, [op |-> "GetApplication", app |-> o.appName])
       /\ IF err # NoErr
          THEN /\ ret' = err
               /\ cpc' = "returned"
          ELSE /\ cpc' = "GetEnvironment"
               /\ UNCHANGED ret
    /\ UNCHANGED <<cmd, o, world, local>>
    /\ UNCHANGED addonsVars

\* Validate, second lookup: the environment, then the return
ValidateGetEnvironment ==
    /\ cmd = "Validate"
    /\ cpc = "GetEnvironment"
    /\ LET app == ValidateEnvApp(o)
           err == MockGetEnvironment(world, app, o.envName) IN
       /\ trace' = Append(trace, [op |-> "GetEnvironment", app |-> app,
                                  env |-> o.envName])
       /\ ret' = err
       /\ cpc' = "returned"
    /\ UNCHANGED <<cmd, o, world, local>>
    /\ UNCHANGED addonsVars

(***************************************************************************)
(* svc init: initSvcOpts.Execute and the manifest it writes.               *)
(***************************************************************************)
\* bound: the length of the list of services ListServices returns
MaxSvcs == 2

fmtAddSvcToAppStart == "Creating ECR repositories for service %s."

fmtAddSvcToAppFailed == "Failed to create ECR repositories for service %s."

fmtAddSvcToAppComplete == "Created ECR repositories for service %s."

\* manifest.LoadBalancedWebServiceType
LoadBalancedWebServiceType == "Load Balanced Web Service"

\* manifest.BackendServiceType
BackendServiceType == "Backend Service"

\* the service types --svc-type can carry, one of them without a manifest
ServiceTypes == {LoadBalancedWebServiceType, BackendServiceType, "Worker"}

ServiceNames == {"api", "frontend"}

\* the services the store can hold: config.Service, name and type
ExistingServices ==
    {[Name |-> n, Type |-> t] : n \in ServiceNames,
                                t \in {LoadBalancedWebServiceType, BackendServiceType}}

\* the lists of services of a length
ListsOfLen(n) == [1..n -> ExistingServices]

\* the working directory, and the manifest file of a service in it
WorkingDir == <<"/", "ws">>

ManifestFile(name) == WorkingDir \o <<"copilot", name, "manifest.yml">>

\* o.store.GetApplication(name): the application, or the store's error
GetApplication(w, name) ==
    IF w.getApplication = NoErr
    THEN [app |-> [Name |-> name], err |-> NoErr]
    ELSE [app |-> <<>>, err |-> w.getApplication]

\* o.store.ListServices(appName): the application's services, or an error
ListServices(w, appName) ==
    IF w.listServices.err = NoErr
    THEN [svcs |-> w.listServices.svcs, err |-> NoErr]
    ELSE [svcs |-> <<>>, err |-> w.listServices.err]

\* o.ws.WriteServiceManifest(manifest, name): the path of the file written,
\* *workspace.ErrFileExists with the existing file's name, or another error
WriteServiceManifest(w, manifest, name) ==
    IF w.write = "written"
    THEN [path |-> ManifestFile(name), err |-> NoErr]
    ELSE IF w.write = "exists"
    THEN [path |-> <<>>,
          err |-> [kind |-> "ErrFileExists", FileName |-> ManifestFile(name)]]
    ELSE [path |-> <<>>, err |-> SomeError("WriteServiceManifest")]

\* relPath(fullPath): the path relative to the working directory
relPath(w, fullPath) ==
    IF w.relPath # NoErr
    THEN [path |-> <<>>, err |-> w.relPath]
    ELSE IF Len(fullPath) >= Len(WorkingDir)
            /\ SubSeq(fullPath, 1, Len(WorkingDir)) = WorkingDir
    THEN [path |-> SubSeq(fullPath, Len(WorkingDir) + 1, Len(fullPath)),
          err |-> NoErr]
    ELSE [path |-> fullPath, err |-> NoErr]

\* the loop's test with the name comparison left out
OtherLoadBalancedWebService_AnyName(existingSvc, opts) ==
    existingSvc.Type = LoadBalancedWebServiceType

\* the test of the loop over the existing services
OtherLoadBalancedWebService(existingSvc, opts) ==
    /\ existingSvc.Type = LoadBalancedWebServiceType
    /\ existingSvc.Name # opts.Name

\* the loop over existingSvcs from position i: props.Path when it ends
RECURSIVE PathAfterLoop(_, _, _, _)
PathAfterLoop(existingSvcs, i, opts, path) ==
    IF i > Len(existingSvcs)
    THEN path
    ELSE IF OtherLoadBalancedWebService(existingSvcs[i], opts)
    THEN opts.Name
    ELSE PathAfterLoop(existingSvcs, i + 1, opts, path)

\* manifest.NewLoadBalancedWebService(props)
NewLoadBalancedWebService(props) ==
    [Type |-> LoadBalancedWebServiceType, props |-> props]

\* manifest.NewBackendService(props)
NewBackendService(props) == [Type |-> BackendServiceType, props |-> props]

\* no manifest: the nil a failed constructor returns
NoManifest == [Type |-> "nil"]

newLoadBalancedWebServiceManifest(opts, w) ==
    LET props == [Name |-> opts.Name, Dockerfile |-> opts.DockerfilePath,
                  Port |-> opts.Port, Path |-> "/"]
        listed == ListServices(w, opts.appName)
        called == <<[op |-> "ListServices", app |-> opts.appName]>> IN
    IF listed.err # NoErr
    THEN [manifest |-> NoManifest, err |-> listed.err, calls |-> called]
    ELSE [manifest |-> NewLoadBalancedWebService(
                           [props EXCEPT !.Path =
                               PathAfterLoop(listed.svcs, 1, opts, props.Path)]),
          err |-> NoErr, calls |-> called]

newBackendServiceManifest(opts) ==
    [manifest |-> NewBackendService([Name |-> opts.Name,
                                     Dockerfile |-> opts.DockerfilePath,
                                     Port |-> opts.Port]),
     err |-> NoErr, calls |-> <<>>]

newManifest(opts, w) ==
    IF opts.ServiceType = LoadBalancedWebServiceType
    THEN newLoadBalancedWebServiceManifest(opts, w)
    ELSE IF opts.ServiceType = BackendServiceType
    THEN newBackendServiceManifest(opts)
    ELSE [manifest |-> NoManifest,
          err |-> [kind |-> "service type doesn't have a manifest",
                   type |-> opts.ServiceType],
          calls |-> <<>>]

\* a type assertion that never finds *workspace.ErrFileExists
IsErrFileExists_Never(err) == FALSE

\* e, ok := err.(*workspace.ErrFileExists)
IsErrFileExists(err) == err.kind = "ErrFileExists"

\* createManifest: the manifest path or the error, and the calls made
createManifest(opts, w) ==
    LET made == newManifest(opts, w) IN
    IF made.err # NoErr
    THEN [path |-> <<>>, err |-> made.err, calls |-> made.calls]
    ELSE
    LET written == WriteServiceManifest(w, made.manifest, opts.Name)
        called == Append(made.calls,
                         [op |-> "WriteServiceManifest",
                          manifest |-> made.manifest, name |-> opts.Name]) IN
    IF written.err # NoErr /\ ~IsErrFileExists(written.err)
    THEN [path |-> <<>>, err |-> written.err, calls |-> called]
    ELSE
    LET manifestPath == IF written.err # NoErr THEN written.err.FileName
                        ELSE written.path
        rel == relPath(w, manifestPath) IN
    IF rel.err # NoErr
    THEN [path |-> <<>>, err |-> rel.err, calls |-> called]
    ELSE [path |-> rel.path, err |-> NoErr, calls |-> called]

\* a failure path that leaves the spinner running
StopFailed_Missing(opts) == <<>>

\* o.prog.Stop(log.Serrorf(fmtAddSvcToAppFailed, o.Name))
StopFailed(opts) ==
    <<[op |-> "Stop", label |-> [fmt |-> fmtAddSvcToAppFailed, svc |-> opts.Name]]>>

\* the options and collaborators Execute can run with
InitExecute ==
    /\ cmd = "Execute"
    /\ \E t \in ServiceTypes, n \in ServiceNames :
         o = [appName |-> "my-app", ServiceType |-> t, Name |-> n,
              DockerfilePath |-> "./Dockerfile", Port |-> 80,
              manifestPath |-> <<>>]
    /\ \E ga \in Answers("GetApplication"),
          wr \in {"written", "exists", "error"},
          rp \in Answers("relPath"),
          ad \in Answers("AddServiceToApp"),
          cs \in Answers("CreateService") :
         \E ls \in {[svcs |-> <<>>, err |-> SomeError("ListServices")]}
                   \cup {[svcs |-> l, err |-> NoErr] :
                           l \in UNION {ListsOfLen(k) : k \in 0..MaxSvcs}} :
           world = [getApplication |-> ga, listServices |-> ls, write |-> wr,
                    relPath |-> rp, addServiceToApp |-> ad, createService |-> cs]
    /\ cpc = "start"
    /\ local = <<>>
    /\ trace = <<>>
    /\ ret = NotReturned

\* Execute: o.store.GetApplication(o.AppName())
ExecuteGetApplication ==
    /\ cmd = "Execute"
    /\ cpc = "start"
    /\ LET r == GetApplication(world, o.appName) IN
       /\ trace' = Append(trace, [op |-> "GetApplication", app |-> o.appName])
       /\ IF r.err # NoErr
          THEN /\ ret' = [kind |-> "get application", app |-> o.appName,
                          cause |-> r.err]
               /\ cpc' = "returned"
               /\ UNCHANGED local
          ELSE /\ local' = [app |-> r.app]
               /\ cpc' = "createManifest"
               /\ UNCHANGED ret
    /\ UNCHANGED <<cmd, o, world>>
    /\ UNCHANGED addonsVars

\* Execute: o.createManifest(), then o.manifestPath is set
ExecuteCreateManifest ==
    /\ cmd = "Execute"
    /\ cpc = "createManifest"
    /\ LET r == createManifest(o, world) IN
       /\ trace' = trace \o r.calls
       /\ IF r.err # NoErr
          THEN /\ ret' = r.err
               /\ cpc' = "returned"
               /\ UNCHANGED o
          ELSE /\ o' = [o EXCEPT !.manifestPath = r.path]
               /\ cpc' = "AddServiceToApp"
               /\ UNCHANGED ret
    /\ UNCHANGED <<cmd, world, local>>
    /\ UNCHANGED addonsVars

\* Execute: the spinner starts, AddServiceToApp, the spinner stops
ExecuteAddServiceToApp ==
    /\ cmd = "Execute"
    /\ cpc = "AddServiceToApp"
    /\ LET err == world.addServiceToApp
           called == <<[op |-> "Start",
                        label |-> [fmt |-> fmtAddSvcToAppStart, svc |-> o.Name]],
                       [op |-> "AddServiceToApp", app |-> local.app,
                        name |-> o.Name]>> IN
       IF err # NoErr
       THEN /\ trace' = trace \o called \o StopFailed(o)
            /\ ret' = [kind |-> "add service to application", svc |-> o.Name,
                       app |-> o.appName, cause |-> err]
            /\ cpc' = "returned"
       ELSE /\ trace' = trace \o called \o
                          <<[op |-> "Stop",
                             label |-> [fmt |-> fmtAddSvcToAppComplete,
                                        svc |-> o.Name]]>>
            /\ cpc' = "CreateService"
            /\ UNCHANGED ret
    /\ UNCHANGED <<cmd, o, world, local>>
    /\ UNCHANGED addonsVars

\* Execute: o.store.CreateService(...), then the return
ExecuteCreateService ==
    /\ cmd = "Execute"
    /\ cpc = "CreateService"
    /\ LET err == world.createService IN
       /\ trace' = Append(trace, [op |-> "CreateService",
                                  svc |-> [App |-> o.appName, Name |-> o.Name,
                                           Type |-> o.ServiceType]])
       /\ ret' = IF err # NoErr
                 THEN [kind |-> "saving service", svc |-> o.Name, cause |-> err]
                 ELSE NoErr
       /\ cpc' = "returned"
    /\ UNCHANGED <<cmd, o, world, local>>
    /\ UNCHANGED addonsVars

(***************************************************************************)
(* svc init: initSvcOpts.askSvcPort.                                       *)
(***************************************************************************)
\* bound: the number of ports GetExposedPorts returns
MaxPorts == 2

\* the bitSize ParseUint is called with: the port is a uint16
PortBits == 16

defaultSvcPortString == <<"8", "0">>

\* the ports a Dockerfile exposes, the largest uint16 among them
ExposedPorts == {0, 80, 8080, 2 ^ PortBits - 1}

\* the values of the --port flag: 0 is "not set"
PortFlags == {0, 5000}

\* the lists of exposed ports of a length
PortsOfLen(n) == [1..n -> ExposedPorts]

Digits == <<"0", "1", "2", "3", "4", "5", "6", "7", "8", "9">>

IsDigit(c) == \E d \in 1..10 : Digits[d] = c

DigitValue(c) == (CHOOSE d \in 1..10 : Digits[d] = c) - 1

\* strconv.Itoa(n) for n >= 0: the decimal digits, most significant first
RECURSIVE Itoa(_)
Itoa(n) ==
    IF n < 10 THEN <<Digits[n + 1]>>
    ELSE Itoa(n \div 10) \o <<Digits[(n % 10) + 1]>>

\* the value of a sequence of decimal digits
RECURSIVE DecimalValue(_)
DecimalValue(s) ==
    IF s = <<>> THEN 0
    ELSE 10 * DecimalValue(SubSeq(s, 1, Len(s) - 1)) + DigitValue(s[Len(s)])

\* strconv.ParseUint(s, 10, bitSize): syntax error on an empty string or a
\* character that is no digit, range error above the largest value
ParseUint(s, bitSize) ==
    IF s = <<>> \/ \E i \in 1..Len(s) : ~IsDigit(s[i])
    THEN [val |-> 0, err |-> [kind |-> "strconv.ErrSyntax"]]
    ELSE IF DecimalValue(s) > 2 ^ bitSize - 1
    THEN [val |-> 2 ^ bitSize - 1, err |-> [kind |-> "strconv.ErrRange"]]
    ELSE [val |-> DecimalValue(s), err |-> NoErr]

\* what the user can type at the port prompt
TypedPorts ==
    {<<>>, <<"0">>, <<"8", "0">>, <<"0", "8", "0">>, <<"4", "4", "3">>,
     <<"8", "0", "a">>, <<"-", "1">>, <<"6", "5", "5", "3", "5">>,
     <<"6", "5", "5", "3", "6">>}

\* o.df.GetExposedPorts(): the ports and the error, whatever they are
GetExposedPorts(w) == [ports |-> w.ports, err |-> w.dfErr]

\* o.prompt.Get(..., prompt.WithDefaultInput(defaultPort)): what the user
\* typed, the default on an empty line, or the prompt's error
PromptGet(w, defaultPort) ==
    IF w.prompt.kind = "error"
    THEN [answer |-> <<>>, err |-> SomeError("Get")]
    ELSE IF w.prompt.kind = "default"
    THEN [answer |-> defaultPort, err |-> NoErr]
    ELSE [answer |-> w.prompt.typed, err |-> NoErr]

\* a default taken from the last exposed port
DefaultPort_Last(ports) ==
    IF Len(ports) > 1 THEN Itoa(ports[Len(ports)]) ELSE defaultSvcPortString

\* defaultPort when the switch on len(ports) falls through to the prompt
DefaultPort(ports) ==
    IF Len(ports) > 1 THEN Itoa(ports[1]) ELSE defaultSvcPortString

\* the flag, the Dockerfile and the user askSvcPort can run with
InitAsk ==
    /\ cmd = "askSvcPort"
    /\ \E n \in ServiceNames, port \in PortFlags :
         o = [appName |-> "my-app", ServiceType |-> LoadBalancedWebServiceType,
              Name |-> n, DockerfilePath |-> "./Dockerfile", Port |-> port,
              manifestPath |-> <<>>]
    /\ \E ports \in UNION {PortsOfLen(k) : k \in 0..MaxPorts},
          dfErr \in Answers("GetExposedPorts"),
          pr \in {[kind |-> "error", typed |-> <<>>],
                  [kind |-> "default", typed |-> <<>>]}
                 \cup {[kind |-> "typed", typed |-> t] : t \in TypedPorts} :
         world = [ports |-> ports, dfErr |-> dfErr, prompt |-> pr]
    /\ cpc = "start"
    /\ local = <<>>
    /\ trace = <<>>
    /\ ret = NotReturned

\* askSvcPort up to the prompt: the flag, the Dockerfile's exposed ports
AskSvcPortParse ==
    /\ cmd = "askSvcPort"
    /\ cpc = "start"
    /\ IF o.Port # 0
       THEN /\ ret' = NoErr
            /\ cpc' = "returned"
            /\ UNCHANGED <<o, local, trace>>
       ELSE LET r == GetExposedPorts(world) IN
            /\ trace' = trace \o <<[op |-> "setupParser"],
                                   [op |-> "GetExposedPorts"]>>
            /\ IF Len(r.ports) = 1
               THEN /\ o' = [o EXCEPT !.Port = r.ports[1]]
                    /\ ret' = NoErr
                    /\ cpc' = "returned"
                    /\ UNCHANGED local
               ELSE /\ local' = [defaultPort |-> DefaultPort(r.ports)]
                    /\ cpc' = "prompt"
                    /\ UNCHANGED <<o, ret>>
    /\ UNCHANGED <<cmd, world>>
    /\ UNCHANGED addonsVars

\* askSvcPort from the prompt on: the answer, ParseUint, the return
AskSvcPortPrompt ==
    /\ cmd = "askSvcPort"
    /\ cpc = "prompt"
    /\ LET got == PromptGet(world, local.defaultPort)
           parsed == ParseUint(got.answer, PortBits) IN
       /\ trace' = Append(trace, [op |-> "Get", default |-> local.defaultPort])
       /\ IF got.err # NoErr
          THEN /\ ret' = [kind |-> "get port", cause |-> got.err]
               /\ UNCHANGED o
          ELSE IF parsed.err # NoErr
          THEN /\ ret' = [kind |-> "parse port string", cause |-> parsed.err]
               /\ UNCHANGED o
          ELSE /\ o' = [o EXCEPT !.Port = parsed.val % (2 ^ PortBits)]
               /\ ret' = NoErr
       /\ cpc' = "returned"
    /\ UNCHANGED <<cmd, world, local>>
    /\ UNCHANGED addonsVars

InitCli ==
    /\ AddonsIdle
    /\ \/ InitValidate
       \/ InitAsk
       \/ InitExecute

NextCli ==
    \/ ValidateGetApplication
    \/ ValidateGetEnvironment
    \/ AskSvcPortParse
    \/ AskSvcPortPrompt
    \/ ExecuteGetApplication
    \/ ExecuteCreateManifest
    \/ ExecuteAddServiceToApp
    \/ ExecuteCreateService

\* one command method of package cli, run once
SpecCli == InitCli /\ [][NextCli]_vars

(***************************************************************************)
(* Vocabulary of the properties, stated on the inputs and the observable   *)
(* outcome of a call rather than through the functions of the package.     *)
(***************************************************************************)
\* position of the last dot of a name, 0 when it has none
LastDot(f) ==
    IF \E i \in 1..Len(f) : f[i] = "."
    THEN CHOOSE i \in 1..Len(f) : f[i] = "." /\ \A j \in (i + 1)..Len(f) : f[j] # "."
    ELSE 0

\* the text of a name from its last dot is exactly .yaml or .yml
IsYAMLName(f) ==
    LET d == LastDot(f) IN
    /\ d > 0
    /\ SubSeq(f, d, Len(f)) \in {<<".", "y", "a", "m", "l">>, <<".", "y", "m", "l">>}

\* a name with its final extension stripped
Stem(f) == LET d == LastDot(f) IN IF d = 0 THEN f ELSE SubSeq(f, 1, d - 1)

IsParamsName(f) == Stem(f) = <<"p", "a", "r", "a", "m", "s">>

IsOutputsName(f) == Stem(f) = <<"o", "u", "t", "p", "u", "t", "s">>

IsResourceName(f) == ~IsParamsName(f) /\ ~IsOutputsName(f)

\* a text without its leading and trailing whitespace
Trimmed(s) ==
    LET inked == {i \in 1..Len(s) : s[i] \notin {" ", "\n", "\t", "\r"}} IN
    IF inked = {} THEN <<>>
    ELSE SubSeq(s, CHOOSE i \in inked : \A j \in inked : i <= j,
                   CHOOSE i \in inked : \A j \in inked : i >= j)

\* t occurs in s
Occurs(t, s) == \E i \in 1..(Len(s) - Len(t) + 1) : SubSeq(s, i, i + Len(t) - 1) = t

\* the first position at which t occurs in s
FirstAt(t, s) ==
    CHOOSE i \in 1..(Len(s) - Len(t) + 1) :
        /\ SubSeq(s, i, i + Len(t) - 1) = t
        /\ \A j \in 1..(i - 1) : SubSeq(s, j, j + Len(t) - 1) # t

\* the files of the listing a call retains
Retained == SelectSeq(env.listing, IsYAMLName)

\* the names a call passed to ReadAddonsFile, in the order of the calls
ReadCalls == SelectSeq(calls, LAMBDA c : c.op = "ReadAddonsFile")

ParseCalls == SelectSeq(calls, LAMBDA c : c.op = "Parse")

\* a Template call has got past ReadAddonsDir
Listed == calls # <<>> /\ ~env.dirErr

\* the files read and folded so far by the call
Folded == SubSeq(fileNames, 1, idx - 1)

\* the call ran its loop to the end: every retained file was read
AllRead == Listed /\ idx > Len(fileNames)

Params == MapGet(addonFiles, <<"p", "a", "r", "a", "m", "s">>)

Outputs == MapGet(addonFiles, <<"o", "u", "t", "p", "u", "t", "s">>)

Resources == MapGet(addonFiles, <<"r", "e", "s", "o", "u", "r", "c", "e", "s">>)

IsMissingFilesError(e) ==
    /\ e.kind = "errorf"
    /\ e.format = "addons directory has missing file(s): %s"

IsReadFileError(e) ==
    /\ e.kind = "errorf"
    /\ e.format = "read addons file %s under service %s: %w"

ParamsYamlText == <<"p", "a", "r", "a", "m", "s", ".", "y", "a", "m", "l">>

OutputsYamlText == <<"o", "u", "t", "p", "u", "t", "s", ".", "y", "a", "m", "l">>

ResourceRequirementText == <<"a", "t", " ", "l", "e", "a", "s", "t", " ", "o", "n", "e", " ", "r", "e", "s", "o", "u", "r", "c", "e", " ", "Y", "A", "M", "L", " ", "f", "i", "l", "e", " ", "s", "u", "c", "h", " ", "a", "s", " ", "\"", "s", "3", "-", "b", "u", "c", "k", "e", "t", ".", "y", "a", "m", "l", "\"">>

(***************************************************************************)
(* C1: a template is rendered only if the Parameters, Outputs and          *)
(* Resources blocks are each non-empty after trimming whitespace; when     *)
(* every file was read and one of the three blocks is empty after          *)
(* trimming, Template returns the missing-files error and no text.         *)
(***************************************************************************)
C1_CompletenessAfterTrimming ==
    (pc = "returned" /\ AllRead) =>
        /\ (ParseCalls # <<>>) =>
              /\ Trimmed(Params) # <<>>
              /\ Trimmed(Outputs) # <<>>
              /\ Trimmed(Resources) # <<>>
        /\ (Trimmed(Params) = <<>> \/ Trimmed(Outputs) = <<>> \/ Trimmed(Resources) = <<>>) =>
              /\ IsMissingFilesError(result.err)
              /\ result.text = <<>>

(***************************************************************************)
(* C2: when validation fails the error names params.yaml iff the           *)
(* Parameters slot is empty, outputs.yaml iff the Outputs slot is empty    *)
(* and the resource-file requirement iff the Resources slot is empty, in   *)
(* that order and nothing else; Parse is not called and the text is empty. *)
(* Validation fails exactly when one of the slots is empty.                *)
(***************************************************************************)
C2_Message == result.err.args[1]

C2_NamedLength ==
    (IF Params = <<>> THEN Len(ParamsYamlText) ELSE 0)
    + (IF Outputs = <<>> THEN Len(OutputsYamlText) ELSE 0)
    + (IF Resources = <<>> THEN Len(ResourceRequirementText) ELSE 0)

C2_NamedCount ==
    (IF Params = <<>> THEN 1 ELSE 0) + (IF Outputs = <<>> THEN 1 ELSE 0)
    + (IF Resources = <<>> THEN 1 ELSE 0)

C2_MissingFilesNamedExactly ==
    /\ (pc = "returned" /\ AllRead) =>
          (IsMissingFilesError(result.err)
             <=> (Params = <<>> \/ Outputs = <<>> \/ Resources = <<>>))
    /\ (pc = "returned" /\ IsMissingFilesError(result.err)) =>
          /\ AllRead
          /\ Occurs(ParamsYamlText, C2_Message) <=> (Params = <<>>)
          /\ Occurs(OutputsYamlText, C2_Message) <=> (Outputs = <<>>)
          /\ Occurs(ResourceRequirementText, C2_Message) <=> (Resources = <<>>)
          \* nothing else: the names and a ", " between two of them
          /\ Len(C2_Message) = C2_NamedLength + 2 * (C2_NamedCount - 1)
          \* in the order params.yaml, outputs.yaml, resource requirement
          /\ (Params = <<>> /\ Outputs = <<>>) =>
                FirstAt(ParamsYamlText, C2_Message) < FirstAt(OutputsYamlText, C2_Message)
          /\ (Params = <<>> /\ Resources = <<>>) =>
                FirstAt(ParamsYamlText, C2_Message)
                   < FirstAt(ResourceRequirementText, C2_Message)
          /\ (Outputs = <<>> /\ Resources = <<>>) =>
                FirstAt(OutputsYamlText, C2_Message)
                   < FirstAt(ResourceRequirementText, C2_Message)
          /\ ParseCalls = <<>>
          /\ result.text = <<>>
          \* an empty directory names all three
          /\ (env.listing = <<>>) =>
                C2_Message = ParamsYamlText \o <<",", " ">> \o OutputsYamlText
                               \o <<",", " ">> \o ResourceRequirementText
          \* a directory with only a resource file names the two others
          /\ (env.listing = <<FileAYaml>>) =>
                C2_Message = ParamsYamlText \o <<",", " ">> \o OutputsYamlText

\* a directory with only a resource file was found to miss params.yaml and
\* outputs.yaml but no resource file
C2_Witness ==
    /\ pc = "returned"
    /\ env.listing = <<FileAYaml>>
    /\ IsMissingFilesError(result.err)
    /\ Occurs(ParamsYamlText, C2_Message)
    /\ Occurs(OutputsYamlText, C2_Message)
    /\ ~Occurs(ResourceRequirementText, C2_Message)

(***************************************************************************)
(* C3: filterYAMLfiles returns exactly the names of the listing whose      *)
(* text from the last dot is .yaml or .yml, case-sensitively and in the    *)
(* order of the listing; the other names are never read and contribute     *)
(* nothing to the aggregated blocks.                                       *)
(***************************************************************************)
C3_FilterKeepsExactlyYAMLNames ==
    Listed =>
        /\ fileNames = Retained
        /\ \A i \in 1..Len(ReadCalls) : IsYAMLName(ReadCalls[i].fileName)
        \* every contribution to a block comes from a file that was read
        /\ (ReadCalls = <<>>) => addonFiles = EmptyMap
        /\ Len(ReadCalls) <= Len(Retained)
        /\ (\A f \in DOMAIN env.content : env.content[f] = <<"A">>) =>
              Len(Params) + Len(Outputs) + Len(Resources) <= 2 * Len(ReadCalls)

\* a listing of a text file, a YAML file and a file with an upper-case
\* extension was filtered down to the YAML file, which was read
C3_Witness ==
    /\ pc = "returned"
    /\ env.listing = <<FileNotesTxt, FileParamsV2Yaml, FileAUpperYAML>>
    /\ fileNames = <<FileParamsV2Yaml>>
    /\ Len(ReadCalls) = 1

(***************************************************************************)
(* C4: a retained file goes to the Parameters slot iff its name without    *)
(* the final extension is exactly "params", to the Outputs slot iff it is  *)
(* exactly "outputs", and to the Resources slot otherwise; each file goes  *)
(* to exactly one slot. Stated on the files folded so far, each of         *)
(* content "A": a slot is written iff a file of its category was folded,   *)
(* and Resources holds one "A\n" per resource file.                        *)
(***************************************************************************)
C4_ResourceCount == Cardinality({i \in 1..Len(Folded) : IsResourceName(Folded[i])})

C4_RoutingIsExact ==
    (Listed /\ \A f \in DOMAIN env.content : env.content[f] = <<"A">>) =>
        /\ DOMAIN addonFiles \subseteq
              {<<"p", "a", "r", "a", "m", "s">>, <<"o", "u", "t", "p", "u", "t", "s">>,
               <<"r", "e", "s", "o", "u", "r", "c", "e", "s">>}
        /\ (<<"p", "a", "r", "a", "m", "s">> \in DOMAIN addonFiles)
              <=> (\E i \in 1..Len(Folded) : IsParamsName(Folded[i]))
        /\ (<<"o", "u", "t", "p", "u", "t", "s">> \in DOMAIN addonFiles)
              <=> (\E i \in 1..Len(Folded) : IsOutputsName(Folded[i]))
        /\ Params \in {<<>>, <<"A">>}
        /\ Outputs \in {<<>>, <<"A">>}
        /\ Len(Resources) = 2 * C4_ResourceCount
        /\ \A i \in 1..C4_ResourceCount :
              Resources[2 * i - 1] = "A" /\ Resources[2 * i] = "\n"

\* Params.yaml, params.v2.yaml and outputs-extra.yml all went to Resources
C4_Witness ==
    /\ AllRead
    /\ env.listing = <<FileCapParamsYaml, FileParamsV2Yaml, FileOutputsExtraYml>>
    /\ DOMAIN addonFiles = {<<"r", "e", "s", "o", "u", "r", "c", "e", "s">>}
    /\ Resources = <<"A", "\n", "A", "\n", "A", "\n">>

(***************************************************************************)
(* C5: the Resources slot is the concatenation, over the resource files    *)
(* read so far in listing order, of each file's trimmed content followed   *)
(* by one newline: no deduplication, no sorting.                           *)
(***************************************************************************)
RECURSIVE C5_Expected(_)
C5_Expected(files) ==
    IF files = <<>> THEN <<>>
    ELSE C5_Expected(SubSeq(files, 1, Len(files) - 1))
         \o (IF IsResourceName(files[Len(files)])
             THEN Trimmed(env.content[files[Len(files)]]) \o <<"\n">>
             ELSE <<>>)

C5_ResourcesInListingOrder ==
    Listed =>
        /\ Resources = C5_Expected(SubSeq(Retained, 1, idx - 1))
        /\ (/\ AllRead
            /\ env.listing = <<FileAYaml, FileBYml>>
            /\ env.content[FileAYaml] = <<"A">>
            /\ env.content[FileBYml] = <<" ", "B", ":", "\n", " ", " ", "T", "\n">>)
           => Resources = <<"A", "\n", "B", ":", "\n", " ", " ", "T", "\n">>
        /\ (/\ AllRead
            /\ env.listing = <<FileBYml, FileAYaml>>
            /\ env.content[FileAYaml] = <<"A">>
            /\ env.content[FileBYml] = <<" ", "B", ":", "\n", " ", " ", "T", "\n">>)
           => Resources = <<"B", ":", "\n", " ", " ", "T", "\n", "A", "\n">>
        \* no deduplication: two files of the same content both count
        /\ (/\ AllRead
            /\ env.listing = <<FileAYaml, FileBYml>>
            /\ env.content[FileAYaml] = <<"A">>
            /\ env.content[FileBYml] = <<"A">>)
           => Resources = <<"A", "\n", "A", "\n">>

\* b.yml listed before a.yaml: the block has b's content first
C5_Witness ==
    /\ AllRead
    /\ env.listing = <<FileBYml, FileAYaml>>
    /\ Resources = <<"B", ":", "\n", " ", " ", "T", "\n", "A", "\n">>

(***************************************************************************)
(* C6: the Parameters and the Outputs slot each hold exactly the trimmed   *)
(* content of the last file in listing order of that category among the    *)
(* files read, nothing of an earlier one; when the later of params.yaml    *)
(* and params.yml is empty, Parameters is reported missing.                *)
(***************************************************************************)
C6_LastOf(files, Is(_)) ==
    LET at == {i \in 1..Len(files) : Is(files[i])} IN
    IF at = {} THEN <<>>
    ELSE Trimmed(env.content[files[CHOOSE i \in at : \A j \in at : j <= i]])

C6_ParamsOutputsOverwrite ==
    Listed =>
        LET read == SubSeq(Retained, 1, idx - 1) IN
        /\ Params = C6_LastOf(read, IsParamsName)
        /\ Outputs = C6_LastOf(read, IsOutputsName)
        /\ (/\ pc = "returned"
            /\ AllRead
            /\ C6_LastOf(Retained, IsParamsName) = <<>>)
           => /\ IsMissingFilesError(result.err)
              /\ Occurs(ParamsYamlText, result.err.args[1])

\* params.yaml with content, then an empty params.yml: Parameters missing
C6_Witness ==
    /\ pc = "returned"
    /\ AllRead
    /\ env.listing = <<FileParamsYaml, FileParamsYml>>
    /\ env.content[FileParamsYaml] = <<"A">>
    /\ env.content[FileParamsYml] = <<" ", "\n">>
    /\ Params = <<>>
    /\ IsMissingFilesError(result.err)
    /\ Occurs(ParamsYamlText, result.err.args[1])

(***************************************************************************)
(* C7: when listing the addons directory fails, Template returns an        *)
(* ErrDirNotExist with the configured service name that wraps the          *)
(* failure, and empty text; it calls neither ReadAddonsFile nor Parse, and *)
(* the error is not the missing-files error.                               *)
(***************************************************************************)
C7_DirNotExist ==
    (calls # <<>> /\ env.dirErr) =>
        /\ pc \in {"returned", "idle"}
        /\ result.err.kind = "ErrDirNotExist"
        /\ result.err.SvcName = a.svcName
        /\ result.err.ParentErr = [kind |-> "readDirFailed"]
        /\ result.text = <<>>
        /\ calls = <<[op |-> "ReadAddonsDir", svc |-> a.svcName]>>
        /\ ~IsMissingFilesError(result.err)

\* the call of service "frontend" whose directory could not be listed
C7_Witness ==
    /\ pc = "returned"
    /\ env.dirErr
    /\ a.svcName = "frontend"
    /\ result.err.kind = "ErrDirNotExist"
    /\ result.err.SvcName = "frontend"

(***************************************************************************)
(* C8: the ReadAddonsFile calls of one Template call are a prefix of the   *)
(* retained files in listing order; at the first failed read the call      *)
(* returns: no further read, no validation, no Parse, empty text, and an   *)
(* error wrapping the read failure with the file and the service name,     *)
(* also when a category is missing.                                        *)
(***************************************************************************)
C8_FirstUnreadable(files) ==
    CHOOSE i \in 1..Len(files) :
        /\ files[i] \in env.unreadable
        /\ \A j \in 1..(i - 1) : files[j] \notin env.unreadable

C8_ReadFailureAborts ==
    Listed =>
        LET files == Retained
            reads == ReadCalls
            fails == \E i \in 1..Len(files) : files[i] \in env.unreadable
            first == C8_FirstUnreadable(files)
        IN
        /\ Len(reads) <= Len(files)
        /\ \A i \in 1..Len(reads) :
              /\ reads[i].fileName = files[i]
              /\ reads[i].svc = a.svcName
        \* the reads follow ReadAddonsDir, one after the other
        /\ \A i \in 1..Len(reads) : calls[i + 1].op = "ReadAddonsFile"
        \* no read after the failed one
        /\ fails => Len(reads) <= first
        /\ (pc = "returned" /\ fails) =>
              /\ Len(reads) = first
              /\ Len(calls) = first + 1
              /\ ParseCalls = <<>>
              /\ result.text = <<>>
              /\ IsReadFileError(result.err)
              /\ result.err.args = <<files[first], a.svcName>>
              /\ result.err.wrapped = [kind |-> "readFileFailed"]
              /\ ~IsMissingFilesError(result.err)
        /\ (pc = "returned" /\ ~fails) =>
              /\ Len(reads) = Len(files)
              /\ ~IsReadFileError(result.err)

\* the first of three files could not be read: one read, nothing after it,
\* the read error although every category is missing
C8_Witness ==
    /\ pc = "returned"
    /\ Len(Retained) = 3
    /\ Retained[1] \in env.unreadable
    /\ Len(calls) = 2
    /\ IsReadFileError(result.err)
    /\ addonFiles = EmptyMap

(***************************************************************************)
(* C9: on success Parse is called exactly once, with the fixed template    *)
(* path, the service name and three line sequences, each the aggregated    *)
(* block trimmed and split on newline: no line holds a newline, there is   *)
(* one line more than newlines in the trimmed block, and the lines joined  *)
(* by newline are the trimmed block.                                       *)
(***************************************************************************)
C9_Newlines(s) == Cardinality({i \in 1..Len(s) : s[i] = "\n"})

C9_LinesOf(lines, block) ==
    /\ \A i \in 1..Len(lines) : \A j \in 1..Len(lines[i]) : lines[i][j] # "\n"
    /\ Len(lines) = C9_Newlines(Trimmed(block)) + 1
    /\ Join(lines, <<"\n">>) = Trimmed(block)

C9_RenderedFromLines ==
    (pc = "returned" /\ result.err = [kind |-> "nil"]) =>
        /\ Len(ParseCalls) = 1
        /\ calls[Len(calls)] = ParseCalls[1]
        /\ ParseCalls[1].path = <<"a", "d", "d", "o", "n", "s", "/", "c", "f", ".", "y", "m", "l">>
        /\ ParseCalls[1].data.SvcName = a.svcName
        /\ DOMAIN ParseCalls[1].data = {"SvcName", "Parameters", "Resources", "Outputs"}
        /\ C9_LinesOf(ParseCalls[1].data.Parameters, Params)
        /\ C9_LinesOf(ParseCalls[1].data.Resources, Resources)
        /\ C9_LinesOf(ParseCalls[1].data.Outputs, Outputs)
        /\ (\E f \in DOMAIN env.content :
               /\ IsResourceName(f)
               /\ env.content[f] = <<" ", "B", ":", "\n", " ", " ", "T", "\n">>
               /\ \A g \in DOMAIN env.content : IsResourceName(g) => g = f)
           => ParseCalls[1].data.Resources = << <<"B", ":">>, <<" ", " ", "T">> >>

\* a single resource file of two lines, the second indented, was rendered
C9_Witness ==
    /\ pc = "returned"
    /\ result.err = [kind |-> "nil"]
    /\ result.text # <<>>
    /\ env.listing = <<FileParamsYaml, FileOutputsYaml, FileAYaml>>
    /\ env.content[FileAYaml] = <<" ", "B", ":", "\n", " ", " ", "T", "\n">>
    /\ ParseCalls[1].data.Resources = << <<"B", ":">>, <<" ", " ", "T">> >>

(***************************************************************************)
(* C10: a second Template call on the same service, with the same          *)
(* listing, file contents and Parse behaviour, returns the same text and   *)
(* the same error as the first.                                            *)
(***************************************************************************)
C10_Deterministic ==
    (pc = "returned" /\ prev # <<>>) => result = prev[1]

\* a second call has rendered a template
C10_Witness ==
    /\ pc = "returned"
    /\ prev # <<>>
    /\ result.err = [kind |-> "nil"]
    /\ result.text # <<>>
    /\ Cardinality({i \in 1..Len(Retained) : IsResourceName(Retained[i])}) >= 1

(***************************************************************************)
(* C11: when Parse succeeds Template returns exactly the rendered text     *)
(* and no error; when Parse fails Template returns empty text and exactly  *)
(* the error of Parse, neither wrapped nor replaced.                       *)
(***************************************************************************)
C11_RenderResultUntouched ==
    (pc = "returned" /\ ParseCalls # <<>>) =>
        IF env.parseErr
        THEN result = [text |-> <<>>, err |-> [kind |-> "parseFailed"]]
        ELSE result = [text |-> <<[template |-> ParseCalls[1].path,
                                   data |-> ParseCalls[1].data]>>,
                       err |-> [kind |-> "nil"]]

\* a call whose Parse failed has returned
C11_Witness ==
    /\ pc = "returned"
    /\ ParseCalls # <<>>
    /\ env.parseErr
    /\ result.err = [kind |-> "parseFailed"]

(***************************************************************************)
(* C12: a Template call leaves the service name and the collaborators of   *)
(* the object as they are, and nothing of a call reaches a later one:      *)
(* after any earlier calls on other directory contents, also calls that    *)
(* failed part-way, a call on contents D returns what the first call of a  *)
(* newly created object returns on D.                                      *)
(***************************************************************************)
\* the files of e folded from an empty map
RECURSIVE C12_Folded(_, _)
C12_Folded(files, e) ==
    IF files = <<>> THEN EmptyMap
    ELSE FoldFile(C12_Folded(SubSeq(files, 1, Len(files) - 1), e),
                  files[Len(files)], Trimmed(e.content[files[Len(files)]]))

\* what a call that starts from nothing returns on e; the first call of
\* every behaviour is such a call, for every e
C12_FreshResult(e, svcName) ==
    IF e.dirErr
    THEN [text |-> <<>>,
          err |-> [kind |-> "ErrDirNotExist", SvcName |-> svcName,
                   ParentErr |-> [kind |-> "readDirFailed"]]]
    ELSE LET files == SelectSeq(e.listing, IsYAMLName)
             bad == {i \in 1..Len(files) : files[i] \in e.unreadable}
         IN
         IF bad # {}
         THEN [text |-> <<>>,
               err |-> ReadFileError(files[CHOOSE i \in bad : \A j \in bad : i <= j],
                                     svcName, [kind |-> "readFileFailed"])]
         ELSE LET m == C12_Folded(files, e) IN
              IF validateNoMissingFiles(m) # NoErr
              THEN [text |-> <<>>, err |-> validateNoMissingFiles(m)]
              ELSE ParseResult(Parse(e, addonsTemplatePath, TemplateData(svcName, m)))

C12_SameAsFresh ==
    (pc = "returned") => result = C12_FreshResult(env, a.svcName)

C12_Stateless ==
    /\ []C12_SameAsFresh
    /\ [][a' = a /\ (pc # "returned" => env' = env)]_vars

\* after a call that failed at a read, a call on other contents rendered
C12_Witness ==
    /\ pc = "returned"
    /\ prev # <<>>
    /\ IsReadFileError(prev[1].err)
    /\ result.err = [kind |-> "nil"]
    /\ result.text # <<>>
    /\ result = C12_FreshResult(env, a.svcName)

(***************************************************************************)
(* Property vocabulary of package cli.                                     *)
(***************************************************************************)
\* the positions of trace at which the collaborator operation op was called
CallsOf(op) == {i \in 1..Len(trace) : trace[i].op = op}

\* the operations called so far, in order
OpsCalled == [i \in 1..Len(trace) |-> trace[i].op]

Returned == cpc = "returned"

(***************************************************************************)
(* C13: showEnvOpts.Validate looks up the application first and the        *)
(* environment second.  The environment lookup is made only after the      *)
(* application lookup succeeded, and with the same application name.  If   *)
(* the application lookup fails, its error is returned and no environment  *)
(* lookup is made; if the environment lookup fails, its error is returned; *)
(* Validate returns nil only when both lookups succeed.                    *)
(***************************************************************************)
C13_LookupOrder ==
    \A i \in CallsOf("GetEnvironment") :
        /\ i = 2
        /\ trace[1] = [op |-> "GetApplication", app |-> o.appName]
        /\ world.getApplication = NoErr
        /\ trace[i] = [op |-> "GetEnvironment", app |-> trace[1].app,
                       env |-> o.envName]

C13_Returns ==
    Returned =>
        /\ trace # <<>> /\ trace[1].op = "GetApplication"
        /\ world.getApplication # NoErr =>
               /\ ret = world.getApplication
               /\ CallsOf("GetEnvironment") = {}
        /\ (world.getApplication = NoErr /\ world.getEnvironment # NoErr) =>
               /\ ret = world.getEnvironment
               /\ CallsOf("GetEnvironment") = {2}
        /\ ret = NoErr <=>
               /\ world.getApplication = NoErr
               /\ world.getEnvironment = NoErr
               /\ OpsCalled = <<"GetApplication", "GetEnvironment">>

C13_ValidateLooksUpAppThenEnv ==
    cmd = "Validate" => (C13_LookupOrder /\ C13_Returns)

\* Validate returned the environment lookup's error after both lookups
C13_Witness ==
    /\ cmd = "Validate"
    /\ Returned
    /\ OpsCalled = <<"GetApplication", "GetEnvironment">>
    /\ ret = SomeError("GetEnvironment")

\* the steps of Execute, in the order of its code
ExecuteSteps ==
    <<"GetApplication", "WriteServiceManifest", "Start", "AddServiceToApp",
      "Stop", "CreateService">>

IsExecuteStep(op) == \E k \in 1..Len(ExecuteSteps) : ExecuteSteps[k] = op

\* the steps of Execute made so far, in order
StepsMade == SelectSeq(OpsCalled, IsExecuteStep)

IsPrefix(s, t) == Len(s) <= Len(t) /\ s = SubSeq(t, 1, Len(s))

\* the collaborators' answers under which no manifest path is obtained
ManifestCreationFails ==
    \/ o.ServiceType \notin {LoadBalancedWebServiceType, BackendServiceType}
    \/ o.ServiceType = LoadBalancedWebServiceType /\ world.listServices.err # NoErr
    \/ world.write = "error"
    \/ world.relPath # NoErr

(***************************************************************************)
(* C14: initSvcOpts.Execute makes its steps in the order get application,  *)
(* write manifest, progress Start, AddServiceToApp, progress Stop,         *)
(* CreateService and stops at the first step that fails: no manifest is    *)
(* written when the application lookup fails, AddServiceToApp is not       *)
(* called when manifest creation fails, CreateService is called only after *)
(* AddServiceToApp succeeded, and when Execute returns every progress      *)
(* Start has been followed by exactly one progress Stop, whether           *)
(* AddServiceToApp succeeded or failed.                                    *)
(***************************************************************************)
C14_FixedOrder == IsPrefix(StepsMade, ExecuteSteps)

\* the error of the first step of manifest creation that fails, as it is
C14_ManifestError ==
    IF o.ServiceType \notin {LoadBalancedWebServiceType, BackendServiceType}
    THEN [kind |-> "service type doesn't have a manifest", type |-> o.ServiceType]
    ELSE IF o.ServiceType = LoadBalancedWebServiceType
            /\ world.listServices.err # NoErr
    THEN world.listServices.err
    ELSE IF world.write = "error"
    THEN SomeError("WriteServiceManifest")
    ELSE world.relPath

C14_StopsAtFirstFailure ==
    /\ world.getApplication # NoErr => StepsMade \in {<<>>, <<"GetApplication">>}
    /\ ManifestCreationFails =>
           /\ CallsOf("Start") = {}
           /\ CallsOf("AddServiceToApp") = {}
    /\ CallsOf("CreateService") # {} =>
           /\ world.addServiceToApp = NoErr
           /\ \E i \in CallsOf("AddServiceToApp") :
                \A j \in CallsOf("CreateService") : i < j
    /\ Returned =>
           ret = IF world.getApplication # NoErr
                 THEN [kind |-> "get application", app |-> o.appName,
                       cause |-> world.getApplication]
                 ELSE IF ManifestCreationFails
                 THEN C14_ManifestError
                 ELSE IF world.addServiceToApp # NoErr
                 THEN [kind |-> "add service to application", svc |-> o.Name,
                       app |-> o.appName, cause |-> world.addServiceToApp]
                 ELSE IF world.createService # NoErr
                 THEN [kind |-> "saving service", svc |-> o.Name,
                       cause |-> world.createService]
                 ELSE NoErr
    /\ (Returned /\ ret = NoErr) => StepsMade = ExecuteSteps

C14_StartThenOneStop ==
    /\ \A j \in CallsOf("Stop") : \E i \in CallsOf("Start") : i < j
    /\ Returned =>
           \A i \in CallsOf("Start") :
               /\ Cardinality({j \in CallsOf("Stop") : j > i}) = 1
               /\ trace[i].label.svc = o.Name
               /\ \E k \in CallsOf("AddServiceToApp") :
                    /\ i < k
                    /\ \A j \in CallsOf("Stop") : k < j

C14_ExecuteStepsInOrder ==
    cmd = "Execute" =>
        (C14_FixedOrder /\ C14_StopsAtFirstFailure /\ C14_StartThenOneStop)

\* Execute returned the error of AddServiceToApp after the spinner stopped
C14_Witness ==
    /\ cmd = "Execute"
    /\ Returned
    /\ StepsMade = <<"GetApplication", "WriteServiceManifest", "Start",
                     "AddServiceToApp", "Stop">>
    /\ ret.kind = "add service to application"
    /\ trace[Len(trace)].label.fmt = fmtAddSvcToAppFailed

(***************************************************************************)
(* C16: a manifest that already exists is no error.  When                  *)
(* WriteServiceManifest fails with ErrFileExists, the existing file's path *)
(* becomes the manifest path and Execute goes on to AddServiceToApp and    *)
(* CreateService and returns exactly as it does when the manifest was      *)
(* written; any other WriteServiceManifest error is returned by Execute    *)
(* and AddServiceToApp is never called.                                    *)
(***************************************************************************)
\* Execute gets as far as calling WriteServiceManifest
C16_ReachesWrite ==
    /\ world.getApplication = NoErr
    /\ \/ o.ServiceType = BackendServiceType
       \/ o.ServiceType = LoadBalancedWebServiceType /\ world.listServices.err = NoErr

\* how Execute ends once a manifest path is there: the same whether the
\* file was written or was found to exist
C16_GoesOn ==
    /\ o.manifestPath = <<"copilot", o.Name, "manifest.yml">>
    /\ StepsMade = IF world.addServiceToApp = NoErr
                   THEN ExecuteSteps
                   ELSE SubSeq(ExecuteSteps, 1, 5)
    /\ ret = IF world.addServiceToApp # NoErr
             THEN [kind |-> "add service to application", svc |-> o.Name,
                   app |-> o.appName, cause |-> world.addServiceToApp]
             ELSE IF world.createService # NoErr
             THEN [kind |-> "saving service", svc |-> o.Name,
                   cause |-> world.createService]
             ELSE NoErr

C16_ExistingManifestIsNoError ==
    (cmd = "Execute" /\ C16_ReachesWrite) =>
        /\ (Returned /\ world.write \in {"exists", "written"}
                     /\ world.relPath = NoErr) => C16_GoesOn
        /\ (Returned /\ world.write \in {"exists", "written"}
                     /\ world.relPath # NoErr) =>
               /\ ret = world.relPath
               /\ StepsMade = SubSeq(ExecuteSteps, 1, 2)
        /\ world.write = "error" =>
               /\ CallsOf("AddServiceToApp") = {}
               /\ o.manifestPath = <<>>
               /\ Returned => /\ ret = SomeError("WriteServiceManifest")
                              /\ StepsMade = SubSeq(ExecuteSteps, 1, 2)

\* the manifest existed and Execute saved the service
C16_Witness ==
    /\ cmd = "Execute"
    /\ Returned
    /\ world.write = "exists"
    /\ o.manifestPath = <<"copilot", o.Name, "manifest.yml">>
    /\ StepsMade = ExecuteSteps
    /\ ret = NoErr

(***************************************************************************)
(* C17: the manifest of a new Load Balanced Web Service gets the path "/"  *)
(* when the application has no other Load Balanced Web Service, and the    *)
(* service's own name when at least one existing service of that type has  *)
(* a different name; existing services of other types, and an entry with   *)
(* the new service's own name, leave the path at "/".  When listing the    *)
(* services fails, the error is returned and no manifest is produced.      *)
(***************************************************************************)
\* the existing Load Balanced Web Services with another name
C17_Others ==
    {i \in 1..Len(world.listServices.svcs) :
        /\ world.listServices.svcs[i].Type = LoadBalancedWebServiceType
        /\ world.listServices.svcs[i].Name # o.Name}

C17_DefaultPath ==
    (cmd = "Execute" /\ o.ServiceType = LoadBalancedWebServiceType) =>
        /\ \A i \in CallsOf("WriteServiceManifest") :
             /\ world.listServices.err = NoErr
             /\ trace[i].manifest.Type = LoadBalancedWebServiceType
             /\ trace[i].manifest.props.Name = o.Name
             /\ Cardinality(C17_Others) = 0 => trace[i].manifest.props.Path = "/"
             /\ Cardinality(C17_Others) >= 1 => trace[i].manifest.props.Path = o.Name
        /\ (world.listServices.err # NoErr /\ world.getApplication = NoErr) =>
             /\ CallsOf("WriteServiceManifest") = {}
             /\ Returned => ret = world.listServices.err
        /\ (world.listServices.err = NoErr /\ world.getApplication = NoErr
               /\ cpc \notin {"start", "createManifest"}) =>
             CallsOf("WriteServiceManifest") # {}

\* the store lists the new service itself and another Load Balanced Web
\* Service: the manifest written has the service's name as its path
C17_Witness ==
    /\ cmd = "Execute"
    /\ o.ServiceType = LoadBalancedWebServiceType
    /\ C17_Others # {}
    /\ \E k \in 1..Len(world.listServices.svcs) :
         world.listServices.svcs[k] = [Name |-> o.Name,
                                       Type |-> LoadBalancedWebServiceType]
    /\ \E i \in CallsOf("WriteServiceManifest") :
         trace[i].manifest.props.Path = o.Name

(***************************************************************************)
(* C15: askSvcPort.  A port flag that is not 0 is kept, with no Dockerfile *)
(* parsing and no prompt.  Otherwise: one exposed port is taken without a  *)
(* prompt; no exposed port (also when parsing failed, the error being      *)
(* ignored) leads to a prompt with default "80"; more than one exposed     *)
(* port leads to a prompt with the first of them as default.  After a      *)
(* prompt that succeeded the port is the 16-bit value of the answer; when  *)
(* the prompt or the parsing of the answer fails, the port stays 0 and an  *)
(* error is returned.                                                      *)
(***************************************************************************)
\* the decimal numbers among the answers a user can type, with their values
C15_ValueTyped ==
    [t \in TypedPorts |->
        IF t = <<"0">> THEN 0
        ELSE IF t \in {<<"8", "0">>, <<"0", "8", "0">>} THEN 80
        ELSE IF t = <<"4", "4", "3">> THEN 443
        ELSE IF t = <<"6", "5", "5", "3", "5">> THEN 65535
        ELSE -1]

\* the default the prompt is to show
C15_Default ==
    IF Len(world.ports) = 0 THEN <<"8", "0">>
    ELSE IF world.ports[1] = 0 THEN <<"0">>
    ELSE IF world.ports[1] = 80 THEN <<"8", "0">>
    ELSE IF world.ports[1] = 8080 THEN <<"8", "0", "8", "0">>
    ELSE <<"6", "5", "5", "3", "5">>

\* the value of the answer, -1 when it is no 16-bit decimal number
C15_Answered ==
    IF world.prompt.kind = "typed" THEN C15_ValueTyped[world.prompt.typed]
    ELSE IF Len(world.ports) = 0 THEN 80
    ELSE world.ports[1]

\* the step from the call: the flag, or the single exposed port
C15_WithoutPrompt ==
    (cmd = "askSvcPort" /\ cpc = "start") =>
        /\ o.Port # 0 =>
               /\ o' = o
               /\ trace' = <<>>
               /\ ret' = NoErr
               /\ cpc' = "returned"
        /\ (o.Port = 0 /\ Len(world.ports) = 1) =>
               /\ o'.Port = world.ports[1]
               /\ trace' = <<[op |-> "setupParser"], [op |-> "GetExposedPorts"]>>
               /\ ret' = NoErr
               /\ cpc' = "returned"
        /\ (o.Port = 0 /\ Len(world.ports) # 1) =>
               /\ o' = o
               /\ cpc' = "prompt"

\* the return after the prompt
C15_Prompted ==
    (cmd = "askSvcPort" /\ Returned /\ CallsOf("Get") # {}) =>
        /\ Len(world.ports) # 1
        /\ trace = <<[op |-> "setupParser"], [op |-> "GetExposedPorts"],
                     [op |-> "Get", default |-> C15_Default]>>
        /\ IF world.prompt.kind = "error"
           THEN /\ o.Port = 0
                /\ ret = [kind |-> "get port", cause |-> SomeError("Get")]
           ELSE IF C15_Answered = -1
           THEN /\ o.Port = 0
                /\ ret.kind = "parse port string"
           ELSE /\ o.Port = C15_Answered
                /\ ret = NoErr

====
